---- MODULE Spec2Model ----
(***************************************************************************)
(* A model of the client-side connection and request-discipline layer of   *)
(* the forex-ai-trader frontend:                                           *)
(*   - RequestQueue       (src/src/utils/requestQueue.ts)                  *)
(*   - StaggeredPolling   (src/unnamed/part_001)                           *)
(*   - the socket clients (src/src/components/BotLogs.tsx, two versions,   *)
(*                         and the MLInsightsDashboard of part_004)        *)
(* Each mechanism has its own specification; the variables of the other    *)
(* mechanisms stay at their initial values.                                *)
(***************************************************************************)
EXTENDS Integers, Sequences, FiniteSets, TLC

VARIABLES
    \* ---- RequestQueue ----
    queue,            \* this.queue: the waiting list, a sequence of request ids
    activeRequests,   \* this.activeRequests
    submitted,        \* number of addRequest calls made so far
    promise,          \* per request: state of the promise addRequest returned
    task,             \* per request: the underlying task request.request():
                      \*   "notInvoked", "running" or "settled"
    timeoutTimer,     \* per request: the setTimeout(requestTimeout) of its dispatch
    recheckTimers,    \* number of pending setTimeout(() => processQueue(), 100)
    \* ---- StaggeredPolling ----
    componentConfigs, \* this.componentConfigs: component -> PollingConfig or NoConfig
    activeIntervals,  \* this.activeIntervals: component -> timer handle, 0 for no entry
    liveTimers,       \* the repeating timers of the runtime that are not cleared
    nextHandle,       \* the handle the next setInterval returns
    calls,            \* per component: number of invocations of its polling callback
    pollOp,           \* the last operation made on the scheduler
    \* ---- BotLogs (BotLogs.tsx:12-212), the client built on connectSocket ----
    connectionAttempts,  \* React state connectionAttempts
    isConnected,         \* React state isConnected
    error,               \* React state error
    socketRef,           \* socketRef.current: a socket, 0 for null
    reconnectTimeoutRef, \* reconnectTimeoutRef.current: a timer handle, 0 for undefined
    sockets,             \* per socket made by io(): "none", "connecting", "connected",
                         \*   "idle" (not connected, the library not retrying), "closed"
    reconnectTimers,     \* the pending timers set by the connect_error and disconnect handlers
    nextSocket,          \* the number of the socket the next io() makes
    nextTimer,           \* the handle the next setTimeout returns
    closureAttempts,     \* connectionAttempts as the memoized connectSocket sees it
    mounted,             \* "no" before the mount effect, "yes", "gone" after unmount
    failures,            \* connect errors since the last successful connect
    pingIntervals,       \* the sockets whose keep-alive setInterval is not cleared
    pingsEmitted,        \* the sockets that have emitted a keep-alive ping
    \* ---- BotLogs (BotLogs.tsx:243-621), the client built on initializeSocket ----
    connectionAttempts2, \* React state connectionAttempts
    retryCount,          \* React state retryCount
    isConnected2,        \* React state isConnected
    error2,              \* React state error
    socket,              \* React state socket: a socket, 0 for null
    sockets2,            \* per socket made by io(): its status and the retryCount and
                         \*   connectionAttempts its handlers closed over
    timers2,             \* the pending timers set by the handlers
    nextSocket2,         \* the number of the socket the next io() makes
    nextTimer2,          \* the handle the next setTimeout returns
    effectSocket,        \* the socket the cleanup of the current effect closes, 0 for none
    mounted2,            \* "no" before the mount effect, "yes", "gone" after unmount
    lastEvent2,          \* the event the component handled last, told apart for
                         \*   a disconnect (its socket and reason) and a click on
                         \*   Retry Connection
    \* ---- MLInsightsDashboard (part_004:79-300) ----
    selectedPair,        \* React state selectedPair
    mlSocketRef,         \* socketRef.current: a socket, 0 for null
    mlSockets,           \* per socket made by io(): its status, the selectedPair its
                         \*   handlers closed over, its number of successful connects
    mlSendBuffer,        \* per socket and pair: subscribe messages emitted while the
                         \*   socket was not connected, kept by the library
    mlSent,              \* per socket and pair: subscribe messages handed to the
                         \*   transport on the socket's present connection
    nextMlSocket,        \* the number of the socket the next io() makes
    mlMounted,           \* "no" before the mount effects, "yes", "gone" after unmount
    mlView,              \* the pair whose data the view state holds, "none" at first
    mlEvent              \* the event the component handled last: its kind, socket
                         \*   and, for a dashboard update, the pair of the payload

queueVars == <<queue, activeRequests, submitted, promise, task, timeoutTimer, recheckTimers>>

pollVars == <<componentConfigs, activeIntervals, liveTimers, nextHandle, calls, pollOp>>

botVars == <<connectionAttempts, isConnected, error, socketRef, reconnectTimeoutRef,
             sockets, reconnectTimers, nextSocket, nextTimer, closureAttempts, mounted,
             failures, pingIntervals, pingsEmitted>>

initVars == <<connectionAttempts2, retryCount, isConnected2, error2, socket, sockets2,
              timers2, nextSocket2, nextTimer2, effectSocket, mounted2, lastEvent2>>

mlVars == <<selectedPair, mlSocketRef, mlSockets, mlSendBuffer, mlSent, nextMlSocket,
            mlMounted, mlView, mlEvent>>

vars == <<queueVars, pollVars, botVars, initVars, mlVars>>

-----------------------------------------------------------------------------
(***************************************************************************)
(* RequestQueue                                                            *)
(***************************************************************************)

\* The queue's configuration (requestQueue.ts:17 and :19).  The properties are
\* stated for any configuration; the source fixes 3 and 10, and the model runs
\* the small configuration of the spec's concrete scenario so that a handful of
\* submissions fills both the slots and the waiting list.
maxConcurrentRequests == 2

maxQueueSize == 2

\* Number of addRequest calls a behaviour makes.
MaxRequests == 5

\* Number of addRequest calls a behaviour of the liveness specification makes.
MaxLiveRequests == 3

Requests == 1..MaxRequests

\* the state of the queue object and of the promises, tasks and timers around it
QueueState ==
    [queue |-> queue, activeRequests |-> activeRequests, promise |-> promise,
     task |-> task, timeoutTimer |-> timeoutTimer, recheckTimers |-> recheckTimers]

\* mutant of QueueIsFull: the limit is tested with > instead of >=
QueueIsFullOffByOne(q) == Len(q) > maxQueueSize

\* requestQueue.ts:26   if (this.queue.length >= this.maxQueueSize)
QueueIsFull(q) == Len(q) >= maxQueueSize

\* mutant of MayDispatch: the concurrency limit is not tested
MayDispatchNoLimit(active, q) == ~(Len(q) = 0)

\* mutant of MayDispatch: one request at a time
MayDispatchOneAtATime(active, q) == ~(active >= 1 \/ Len(q) = 0)

\* requestQueue.ts:46   the early return of processQueue, negated
MayDispatch(active, q) == ~(active >= maxConcurrentRequests \/ Len(q) = 0)

\* mutant of Finally: the next processQueue is not scheduled
FinallyNoRecheck(s) ==
    [s EXCEPT !.activeRequests = @ - 1]

\* mutant of Finally: no second re-check is scheduled while one is pending
FinallyOneRecheck(s) ==
    [s EXCEPT !.activeRequests = @ - 1,
              !.recheckTimers = IF @ = 0 THEN 1 ELSE @]

\* requestQueue.ts:73-77   finally: activeRequests--, schedule the next processQueue
Finally(s) ==
    [s EXCEPT !.activeRequests = @ - 1, !.recheckTimers = @ + 1]

\* requestQueue.ts:64-77   the continuation of processQueue after the race settles
\* with `outcome`: resolve (69) or reject (72) the caller's promise, then finally
RaceSettled(s, r, outcome) ==
    Finally([s EXCEPT !.promise[r] = outcome])

\* mutant of RacePending: the race is taken as undecided for as long as the
\* entry was dispatched, whatever has settled since
RacePendingForever(s, r) == s.timeoutTimer[r] # "none"

\* the race of request r is still undecided: r was dispatched and neither its
\* task nor its timeout has settled the await of line 64
RacePending(s, r) == s.timeoutTimer[r] # "none" /\ s.promise[r] = "pending"

\* mutant of ProcessQueue: head entries are dispatched until no slot is free
\* or nothing waits
ProcessQueueDrains(s, throws) ==
    LET free  == maxConcurrentRequests - s.activeRequests
        n     == IF free < Len(s.queue) THEN free ELSE Len(s.queue)
        heads == {s.queue[i] : i \in 1..n}
    IN  [s EXCEPT !.queue = SubSeq(@, n + 1, Len(@)),
                  !.activeRequests = @ + n,
                  !.timeoutTimer = [r \in Requests |->
                                       IF r \in heads THEN "pending" ELSE @[r]],
                  !.task = [r \in Requests |->
                               IF r \in heads THEN "running" ELSE @[r]]]

\* requestQueue.ts:45-67   processQueue up to its await: the guard, shift,
\* activeRequests++, the timeout timer, and the call of request.request().
\* `throws`: request.request() throws synchronously, which lands in catch/finally
\* before processQueue returns.
ProcessQueue(s, throws) ==
    IF ~MayDispatch(s.activeRequests, s.queue) THEN s
    ELSE LET r  == Head(s.queue)
             s1 == [s EXCEPT !.queue = Tail(@),
                             !.activeRequests = @ + 1,
                             !.timeoutTimer[r] = "pending"]
         IN  IF throws
             THEN RaceSettled([s1 EXCEPT !.task[r] = "settled"], r, "taskError")
             ELSE [s1 EXCEPT !.task[r] = "running"]

\* mutant of AddRequestTo: the entry is put at the head of the waiting list
AddRequestAtHead(s, r, throws) ==
    IF QueueIsFull(s.queue)
    THEN [s EXCEPT !.promise[r] = "full"]
    ELSE ProcessQueue([s EXCEPT !.queue = <<r>> \o @, !.promise[r] = "pending"],
                      throws)

\* mutant of AddRequestTo: the length of the waiting list is not tested
AddRequestUnlimited(s, r, throws) ==
    ProcessQueue([s EXCEPT !.queue = Append(@, r), !.promise[r] = "pending"], throws)

\* requestQueue.ts:21-43   addRequest for the request with id r
AddRequestTo(s, r, throws) ==
    IF QueueIsFull(s.queue)
    THEN [s EXCEPT !.promise[r] = "full"]
    ELSE ProcessQueue([s EXCEPT !.queue = Append(@, r), !.promise[r] = "pending"],
                      throws)

\* mutant of ClearQueueOf: the promises are rejected, the list is not emptied
ClearQueueKeepsEntries(s) ==
    [s EXCEPT !.promise = [r \in Requests |->
                              IF \E i \in 1..Len(s.queue) : s.queue[i] = r
                              THEN "cleared" ELSE @[r]]]

\* requestQueue.ts:88-93   clearQueue
ClearQueueOf(s) ==
    [s EXCEPT !.promise = [r \in Requests |->
                              IF \E i \in 1..Len(s.queue) : s.queue[i] = r
                              THEN "cleared" ELSE @[r]],
              !.queue = <<>>]

SetQueueState(s) ==
    /\ UNCHANGED <<pollVars, botVars, initVars, mlVars>>
    /\ queue' = s.queue
    /\ activeRequests' = s.activeRequests
    /\ promise' = s.promise
    /\ task' = s.task
    /\ timeoutTimer' = s.timeoutTimer
    /\ recheckTimers' = s.recheckTimers

QueueInit ==
    /\ queue = <<>>
    /\ activeRequests = 0
    /\ submitted = 0
    /\ promise = [r \in Requests |-> "unsubmitted"]
    /\ task = [r \in Requests |-> "notInvoked"]
    /\ timeoutTimer = [r \in Requests |-> "none"]
    /\ recheckTimers = 0

\* a caller calls addRequest; a behaviour makes at most n such calls
AddRequestUpTo(n) ==
    /\ submitted < n
    /\ submitted' = submitted + 1
    /\ \E throws \in BOOLEAN :
          SetQueueState(AddRequestTo(QueueState, submitted + 1, throws))

\* the promise returned by request.request() settles (fulfilled or rejected);
\* if the race is still pending this runs lines 69 or 72 and finally
TaskSettles(r) ==
    /\ task[r] = "running"
    /\ \E ok \in BOOLEAN :
          LET s1 == [QueueState EXCEPT !.task[r] = "settled"]
          IN  SetQueueState(IF RacePending(QueueState, r)
                            THEN RaceSettled(s1, r, IF ok THEN "resolved" ELSE "taskError")
                            ELSE s1)
    /\ UNCHANGED submitted

\* the setTimeout of lines 58-60 fires while the race is undecided: it decides
\* it.  (The timer is never cleared; when it fires after the race was decided
\* it rejects a promise the race no longer looks at, which changes nothing,
\* and the model leaves such a timer as "pending".)
TimeoutFires(r) ==
    /\ timeoutTimer[r] = "pending"
    /\ promise[r] = "pending"
    /\ LET s1 == [QueueState EXCEPT !.timeoutTimer[r] = "fired"]
       IN  SetQueueState(IF RacePending(QueueState, r)
                         THEN RaceSettled(s1, r, "timeout")
                         ELSE s1)
    /\ UNCHANGED submitted

\* the setTimeout of line 76 fires: processQueue()
RecheckFires ==
    /\ recheckTimers > 0
    /\ \E throws \in BOOLEAN :
          SetQueueState(ProcessQueue([QueueState EXCEPT !.recheckTimers = @ - 1], throws))
    /\ UNCHANGED submitted

\* a caller calls clearQueue
ClearQueue ==
    /\ SetQueueState(ClearQueueOf(QueueState))
    /\ UNCHANGED submitted

-----------------------------------------------------------------------------
(***************************************************************************)
(* StaggeredPolling                                                        *)
(***************************************************************************)

Components == {"A", "B"}

\* the base intervals callers register, in ms
BaseIntervals == {1000, 15000}

\* number of setInterval calls a behaviour makes
MaxTimers == 3

\* number of callback invocations counted per component
MaxCalls == 2

NoConfig == [component |-> "", baseInterval |-> 0, staggerOffset |-> 0]

\* mutant of StaggerOffsets: the offset is drawn from 0-50% of the base interval
StaggerOffsetsHalf(baseInterval) == {0, baseInterval \div 2}

\* part_001:45   Math.random() * (baseInterval * 0.3), with Math.random() in
\* [0, 1): the smallest, a middle and the largest whole number of ms
StaggerOffsets(baseInterval) ==
    {0, (baseInterval * 3) \div 20, (baseInterval * 3) \div 10 - 1}

PollState ==
    [componentConfigs |-> componentConfigs, activeIntervals |-> activeIntervals,
     liveTimers |-> liveTimers, nextHandle |-> nextHandle, calls |-> calls]

\* mutant of RegisterComponentIn: an earlier registration keeps its offset
RegisterComponentMerges(s, component, baseInterval, offset) ==
    [s EXCEPT !.componentConfigs[component] =
                  [component |-> component, baseInterval |-> baseInterval,
                   staggerOffset |-> IF @ = NoConfig THEN offset
                                                     ELSE @.staggerOffset]]

\* part_001:43-55   registerComponent, the random draw being `offset`
RegisterComponentIn(s, component, baseInterval, offset) ==
    [s EXCEPT !.componentConfigs[component] =
                  [component |-> component, baseInterval |-> baseInterval,
                   staggerOffset |-> offset]]

\* clearInterval(handle)
ClearInterval(timers, handle) == {t \in timers : t.handle # handle}

\* mutant of StopPollingIn: the map entry is deleted, the timer is not cleared
StopPollingNoClear(s, component) ==
    [s EXCEPT !.activeIntervals[component] = 0]

\* mutant of StopPollingIn: every timer of the scheduler is cleared
StopPollingClearsEveryTimer(s, component) ==
    [s EXCEPT !.liveTimers = {},
              !.activeIntervals[component] = 0]

\* mutant of StopPollingIn: the registration is deleted with the timer
StopPollingDestroysRegistration(s, component) ==
    [s EXCEPT !.liveTimers = ClearInterval(@, s.activeIntervals[component]),
              !.activeIntervals[component] = 0,
              !.componentConfigs[component] = NoConfig]

\* part_001:79-86   stopPolling
StopPollingIn(s, component) ==
    IF s.activeIntervals[component] # 0
    THEN [s EXCEPT !.liveTimers = ClearInterval(@, s.activeIntervals[component]),
                   !.activeIntervals[component] = 0]
    ELSE s

\* mutant of StartPollingIn: the registration is not looked at before starting
StartPollingUnchecked(s, component) ==
    LET config == s.componentConfigs[component]
        s1 == StopPollingIn(s, component)
    IN  [s1 EXCEPT !.calls[component] = @ + 1,
                   !.liveTimers = @ \cup {[handle |-> s1.nextHandle,
                                           component |-> component,
                                           period |-> config.baseInterval
                                                        + config.staggerOffset]},
                   !.nextHandle = @ + 1,
                   !.activeIntervals[component] = s1.nextHandle]

\* part_001:57-77   startPolling: the callback is called once, then setInterval
StartPollingIn(s, component) ==
    LET config == s.componentConfigs[component] IN
    IF config = NoConfig THEN s
    ELSE LET s1 == StopPollingIn(s, component)
             staggeredInterval == config.baseInterval + config.staggerOffset
         IN  [s1 EXCEPT !.calls[component] = @ + 1,
                        !.liveTimers = @ \cup {[handle |-> s1.nextHandle,
                                                component |-> component,
                                                period |-> staggeredInterval]},
                        !.nextHandle = @ + 1,
                        !.activeIntervals[component] = s1.nextHandle]

\* mutant of StopAllPollingIn: the map is emptied, the timers are left running
StopAllPollingOnlyForgets(s) ==
    [s EXCEPT !.activeIntervals = [c \in Components |-> 0]]

\* part_001:88-94   stopAllPolling
StopAllPollingIn(s) ==
    [s EXCEPT !.liveTimers = {t \in @ : \A c \in Components :
                                           s.activeIntervals[c] # t.handle},
              !.activeIntervals = [c \in Components |-> 0]]

\* part_001:96-102   getPollingStatus
GetPollingStatus ==
    {[component |-> c,
      interval |-> componentConfigs[c].baseInterval,
      staggered |-> componentConfigs[c].baseInterval + componentConfigs[c].staggerOffset]
        : c \in {c2 \in Components : componentConfigs[c2] # NoConfig}}

SetPollState(s) ==
    /\ UNCHANGED <<queueVars, botVars, initVars, mlVars>>
    /\ componentConfigs' = s.componentConfigs
    /\ activeIntervals' = s.activeIntervals
    /\ liveTimers' = s.liveTimers
    /\ nextHandle' = s.nextHandle
    /\ calls' = s.calls

\* part_001:33-34   the maps are empty; handles of setInterval are positive
PollInit ==
    /\ componentConfigs = [c \in Components |-> NoConfig]
    /\ activeIntervals = [c \in Components |-> 0]
    /\ liveTimers = {}
    /\ nextHandle = 1
    /\ calls = [c \in Components |-> 0]
    /\ pollOp = [op |-> "none", component |-> "", hadTimer |-> FALSE]

\* the operation being made, and whether its component had an active timer
PollOp(op, c) ==
    [op |-> op, component |-> c,
     hadTimer |-> IF c \in Components THEN activeIntervals[c] # 0 ELSE FALSE]

RegisterComponent(c) ==
    /\ \E b \in BaseIntervals : \E o \in StaggerOffsets(b) :
          SetPollState(RegisterComponentIn(PollState, c, b, o))
    /\ pollOp' = PollOp("registerComponent", c)

\* callbacks do not call the scheduler themselves
StartPolling(c) ==
    /\ nextHandle <= MaxTimers
    /\ calls[c] < MaxCalls
    /\ SetPollState(StartPollingIn(PollState, c))
    /\ pollOp' = PollOp("startPolling", c)

StopPolling(c) ==
    /\ SetPollState(StopPollingIn(PollState, c))
    /\ pollOp' = PollOp("stopPolling", c)

StopAllPolling ==
    /\ SetPollState(StopAllPollingIn(PollState))
    /\ pollOp' = PollOp("stopAllPolling", "")

\* a live repeating timer ticks: the runtime calls its callback
Tick(t) ==
    /\ t \in liveTimers
    /\ calls[t.component] < MaxCalls
    /\ calls' = [calls EXCEPT ![t.component] = @ + 1]
    /\ pollOp' = PollOp("tick", t.component)
    /\ UNCHANGED <<componentConfigs, activeIntervals, liveTimers, nextHandle>>
    /\ UNCHANGED <<queueVars, botVars, initVars, mlVars>>

PollNext ==
    \/ \E c \in Components : RegisterComponent(c)
    \/ \E c \in Components : StartPolling(c)
    \/ \E c \in Components : StopPolling(c)
    \/ StopAllPolling
    \/ \E t \in liveTimers : Tick(t)

-----------------------------------------------------------------------------
(***************************************************************************)
(* BotLogs, the client built on connectSocket (BotLogs.tsx:12-212)         *)
(*                                                                         *)
(* The socket.io socket is the environment: a socket made by io() with     *)
(* reconnection: true connects by itself, reports each failed attempt with *)
(* connect_error, and after a transport-level disconnect goes back to      *)
(* connecting by itself.  A handler runs together with the React state     *)
(* updates it makes.                                                       *)
(***************************************************************************)

\* number of io() calls a behaviour makes
MaxSockets == 3

\* number of setTimeout calls the handlers of a behaviour make
MaxReconnectTimers == 3

\* number of consecutive connect errors counted
MaxFailures == 3

Sockets == 1..MaxSockets

Min(a, b) == IF a < b THEN a ELSE b

\* BotLogs.tsx:83, 103   Math.min(1000 * Math.pow(2, connectionAttempts), 10000)
BackoffDelay(attempts) == Min(1000 * 2^attempts, 10000)

DisconnectReasons ==
    {"io server disconnect", "transport close", "transport error", "ping timeout"}

BotState ==
    [connectionAttempts |-> connectionAttempts, isConnected |-> isConnected,
     error |-> error, socketRef |-> socketRef,
     reconnectTimeoutRef |-> reconnectTimeoutRef, sockets |-> sockets,
     reconnectTimers |-> reconnectTimers, nextSocket |-> nextSocket,
     nextTimer |-> nextTimer,
     closureAttempts |-> closureAttempts, mounted |-> mounted, failures |-> failures,
     pingIntervals |-> pingIntervals, pingsEmitted |-> pingsEmitted]

\* a state setter of an unmounted component changes nothing
SetIsConnected(s, v) == IF s.mounted = "yes" THEN [s EXCEPT !.isConnected = v] ELSE s

SetError(s, v) == IF s.mounted = "yes" THEN [s EXCEPT !.error = v] ELSE s

SetConnectionAttempts(s, v) ==
    IF s.mounted = "yes" THEN [s EXCEPT !.connectionAttempts = v] ELSE s

\* the behaviour stays within the sockets, timers and failures the model counts
BotBounded(s) ==
    /\ s.nextSocket <= MaxSockets + 1
    /\ s.nextTimer <= MaxReconnectTimers + 1
    /\ s.failures <= MaxFailures

\* clearTimeout(handle)
ClearTimeout(timers, handle) == {t \in timers : t.handle # handle}

\* BotLogs.tsx:93-106   the disconnect handler of socket k; socket.connect() of
\* line 100 puts the socket back to connecting
OnDisconnect(s, k, reason) ==
    LET s1 == SetError(SetIsConnected(s, FALSE), "Disconnected") IN
    IF reason = "io server disconnect"
    THEN [s1 EXCEPT !.sockets[k] = "connecting"]
    ELSE IF reason = "transport close" \/ reason = "transport error"
    THEN [s1 EXCEPT !.reconnectTimers = @ \cup
                        {[handle |-> s1.nextTimer, kind |-> "connectSocket",
                          socket |-> k, delay |-> BackoffDelay(s1.closureAttempts),
                          failure |-> s1.failures]},
                    !.reconnectTimeoutRef = s1.nextTimer,
                    !.nextTimer = @ + 1]
    ELSE s1

\* socket.disconnect(): a connected socket emits disconnect ("io client
\* disconnect") to its handlers while it closes
SocketDisconnect(s, k) ==
    IF s.sockets[k] = "connected"
    THEN OnDisconnect([s EXCEPT !.sockets[k] = "closed"], k, "io client disconnect")
    ELSE [s EXCEPT !.sockets[k] = "closed"]

\* BotLogs.tsx:21-136   connectSocket: the guard, the new socket with its
\* handlers and its keep-alive interval (121-126).  The function connectSocket
\* returns (128-135), which would clear the interval, is dropped by every
\* caller (86, 104, 139).
ConnectSocket(s) ==
    IF s.socketRef # 0 /\ s.sockets[s.socketRef] = "connected" THEN s
    ELSE LET s1 == IF s.reconnectTimeoutRef # 0
                   THEN [s EXCEPT !.reconnectTimers =
                                      ClearTimeout(@, s.reconnectTimeoutRef)]
                   ELSE s
             s2 == SetConnectionAttempts(s1, s1.connectionAttempts + 1)
         IN  [s2 EXCEPT !.sockets[s.nextSocket] = "connecting",
                        !.socketRef = s.nextSocket,
                        !.pingIntervals = @ \cup {s.nextSocket},
                        !.nextSocket = @ + 1]

\* mutant of OnConnect: the attempt counter is left as it is
OnConnectKeepsAttempts(s) == SetIsConnected(SetError(s, "null"), TRUE)

\* BotLogs.tsx:57-67   the connect handler
OnConnect(s) ==
    SetConnectionAttempts(SetIsConnected(SetError(s, "null"), TRUE), 0)

\* BotLogs.tsx:77-91   the connect_error handler of socket k
OnConnectError(s, k) ==
    LET s1 == SetError(SetIsConnected(s, FALSE), "Connection error") IN
    [s1 EXCEPT !.reconnectTimers = @ \cup
                   {[handle |-> s1.nextTimer, kind |-> "retry", socket |-> k,
                     delay |-> BackoffDelay(s1.closureAttempts),
                     failure |-> s1.failures]},
               !.reconnectTimeoutRef = s1.nextTimer,
               !.nextTimer = @ + 1]

\* BotLogs.tsx:84-90   the callback of the timer set by the connect_error handler
RetryCallback(s, k) ==
    IF s.sockets[k] # "connected" /\ s.closureAttempts < 5
    THEN ConnectSocket(SocketDisconnect(s, k))
    ELSE s

\* BotLogs.tsx:122-126   the callback of the keep-alive interval of socket k
PingCallback(s, k) ==
    IF s.sockets[k] = "connected" THEN [s EXCEPT !.pingsEmitted = @ \cup {k}] ELSE s

\* BotLogs.tsx:141-149   the cleanup of the mount effect
UnmountCleanup(s) ==
    LET s1 == IF s.socketRef # 0
              THEN [SocketDisconnect(s, s.socketRef) EXCEPT !.socketRef = 0]
              ELSE s
    IN  IF s1.reconnectTimeoutRef # 0
        THEN [s1 EXCEPT !.reconnectTimers = ClearTimeout(@, s1.reconnectTimeoutRef)]
        ELSE s1

SetBotState(s) ==
    /\ UNCHANGED <<queueVars, pollVars, initVars, mlVars>>
    /\ connectionAttempts' = s.connectionAttempts
    /\ isConnected' = s.isConnected
    /\ error' = s.error
    /\ socketRef' = s.socketRef
    /\ reconnectTimeoutRef' = s.reconnectTimeoutRef
    /\ sockets' = s.sockets
    /\ reconnectTimers' = s.reconnectTimers
    /\ nextSocket' = s.nextSocket
    /\ nextTimer' = s.nextTimer
    /\ closureAttempts' = s.closureAttempts
    /\ mounted' = s.mounted
    /\ failures' = s.failures
    /\ pingIntervals' = s.pingIntervals
    /\ pingsEmitted' = s.pingsEmitted

\* BotLogs.tsx:13-19   the component before its mount effect has run
BotInit ==
    /\ connectionAttempts = 0
    /\ isConnected = FALSE
    /\ error = "null"
    /\ socketRef = 0
    /\ reconnectTimeoutRef = 0
    /\ sockets = [k \in Sockets |-> "none"]
    /\ reconnectTimers = {}
    /\ nextSocket = 1
    /\ nextTimer = 1
    /\ closureAttempts = 0
    /\ mounted = "no"
    /\ failures = 0
    /\ pingIntervals = {}
    /\ pingsEmitted = {}

\* BotLogs.tsx:138-150 and 21, 136   the first render memoizes connectSocket
\* (useCallback with no dependencies: it keeps the connectionAttempts of this
\* render for good), then the mount effect calls it
BotMount ==
    /\ mounted = "no"
    /\ SetBotState(ConnectSocket([BotState EXCEPT !.mounted = "yes",
                                      !.closureAttempts = connectionAttempts]))

\* the socket connects
BotConnect(k) ==
    /\ sockets[k] = "connecting"
    /\ SetBotState(OnConnect([BotState EXCEPT !.sockets[k] = "connected",
                                              !.failures = 0]))

\* a connection attempt of the socket fails; the library goes on retrying, or
\* has used up its reconnectionAttempts and stops
BotConnectError(k) ==
    /\ sockets[k] = "connecting"
    /\ \E after \in {"connecting", "idle"} :
          LET s1 == [OnConnectError([BotState EXCEPT !.sockets[k] = after], k)
                        EXCEPT !.failures = @ + 1]
          IN  BotBounded(s1) /\ SetBotState(s1)

\* the connection of the socket is lost; the library reconnects by itself
\* unless the server closed the connection
BotDisconnect(k) ==
    /\ sockets[k] = "connected"
    /\ \E reason \in DisconnectReasons :
          LET s1 == OnDisconnect(
                        [BotState EXCEPT !.sockets[k] =
                             IF reason = "io server disconnect"
                             THEN "idle" ELSE "connecting"],
                        k, reason)
          IN  BotBounded(s1) /\ SetBotState(s1)

\* a pending reconnect timer fires
BotTimerFires(t) ==
    /\ t \in reconnectTimers
    /\ LET s1 == [BotState EXCEPT !.reconnectTimers = @ \ {t}]
           s2 == IF t.kind = "retry" THEN RetryCallback(s1, t.socket)
                                     ELSE ConnectSocket(s1)
       IN  BotBounded(s2) /\ SetBotState(s2)

\* the keep-alive interval of a socket ticks
BotPing(k) ==
    /\ k \in pingIntervals
    /\ SetBotState(PingCallback(BotState, k))

\* the component is unmounted
BotUnmount ==
    /\ mounted = "yes"
    /\ SetBotState([UnmountCleanup(BotState) EXCEPT !.mounted = "gone"])

BotNext ==
    \/ BotMount
    \/ \E k \in Sockets : BotConnect(k)
    \/ \E k \in Sockets : BotConnectError(k)
    \/ \E k \in Sockets : BotDisconnect(k)
    \/ \E t \in reconnectTimers : BotTimerFires(t)
    \/ \E k \in Sockets : BotPing(k)
    \/ BotUnmount

-----------------------------------------------------------------------------
(***************************************************************************)
(* BotLogs, the client built on initializeSocket (BotLogs.tsx:243-621)     *)
(*                                                                         *)
(* Its sockets are made with reconnection: false: after a connect_error or *)
(* a disconnect the socket stays idle until the code calls connect().      *)
(* initializeSocket is memoized on [retryCount, connectionAttempts] and is *)
(* the dependency of the effect that calls it: a handler that changes one  *)
(* of the two makes the effect run again.  The state updates of a handler  *)
(* are committed in one render, and the effects of that render run before  *)
(* the next event.                                                         *)
(***************************************************************************)

\* BotLogs.tsx:255
MAX_RETRIES == 3

\* BotLogs.tsx:256
RETRY_DELAY == 2000

\* BotLogs.tsx:258
MAX_CONNECTION_ATTEMPTS == 5

\* number of io() calls a behaviour makes
MaxSockets2 == 6

\* number of setTimeout calls the handlers of a behaviour make
MaxTimers2 == 4

Sockets2 == 1..MaxSockets2

NoSocket == [status |-> "none", retryCount |-> 0, connectionAttempts |-> 0]

InitState ==
    [connectionAttempts |-> connectionAttempts2, retryCount |-> retryCount,
     isConnected |-> isConnected2, error |-> error2, socket |-> socket,
     sockets |-> sockets2, timers |-> timers2, nextSocket |-> nextSocket2,
     nextTimer |-> nextTimer2, effectSocket |-> effectSocket, mounted |-> mounted2]

InitBounded(s) ==
    /\ s.nextSocket <= MaxSockets2 + 1
    /\ s.nextTimer <= MaxTimers2 + 1

\* a state setter of an unmounted component changes nothing
SetState2(s, field, v) == IF s.mounted = "yes" THEN [s EXCEPT ![field] = v] ELSE s

\* setTimeout(callback, delay)
SetTimeout2(s, kind, k, delay) ==
    [s EXCEPT !.timers = @ \cup {[handle |-> s.nextTimer, kind |-> kind,
                                  socket |-> k, delay |-> delay]},
              !.nextTimer = @ + 1]

\* BotLogs.tsx:389-405   the disconnect handler of socket k
OnDisconnect2(s, k, reason) ==
    LET s1 == SetState2(s, "isConnected", FALSE) IN
    IF (reason = "io server disconnect" \/ reason = "transport close")
          /\ s.sockets[k].retryCount < MAX_RETRIES
    THEN SetTimeout2(SetState2(s1, "retryCount", s1.retryCount + 1), "connect", k,
                     Min(1000 * 2^(s.sockets[k].retryCount), 5000))
    ELSE s1

\* newSocket.close(): a connected socket emits disconnect ("io client
\* disconnect") to its handlers while it closes
SocketClose2(s, k) ==
    IF s.sockets[k].status = "connected"
    THEN OnDisconnect2([s EXCEPT !.sockets[k].status = "closed"], k,
                       "io client disconnect")
    ELSE [s EXCEPT !.sockets[k].status = "closed"]

\* socket.connect(): nothing for a socket that is connected or connecting
SocketConnect2(s, k) ==
    IF s.sockets[k].status \in {"idle", "closed"}
    THEN [s EXCEPT !.sockets[k].status = "connecting"]
    ELSE s

\* BotLogs.tsx:260-519   initializeSocket as memoized in a render whose
\* connectionAttempts and retryCount are `attempts` and `retries`; the socket
\* its cleanup closes (none for undefined) is left in effectSocket
InitializeSocket(s, attempts, retries) ==
    IF attempts >= MAX_CONNECTION_ATTEMPTS
    THEN [SetState2(s, "error", "Maximum connection attempts reached")
             EXCEPT !.effectSocket = 0]
    ELSE SetState2([s EXCEPT !.sockets[s.nextSocket] =
                                 [status |-> "connecting", retryCount |-> retries,
                                  connectionAttempts |-> attempts],
                             !.nextSocket = @ + 1,
                             !.effectSocket = s.nextSocket],
                   "socket", s.nextSocket)

\* BotLogs.tsx:521-526   the effect: the cleanup of its last run, then
\* initializeSocket of the new render
RunEffect(s) ==
    LET s1 == IF s.effectSocket # 0 THEN SocketClose2(s, s.effectSocket) ELSE s
    IN  InitializeSocket(s1, s1.connectionAttempts, s1.retryCount)

\* the render after a handler: the effect runs again when retryCount or
\* connectionAttempts differ from those of the last render
Rerender(before, after) ==
    IF after.mounted = "yes"
          /\ <<after.retryCount, after.connectionAttempts>>
                # <<before.retryCount, before.connectionAttempts>>
    THEN RunEffect(after)
    ELSE after

\* BotLogs.tsx:282-288   the connect handler
OnConnect2(s) ==
    SetState2(SetState2(SetState2(SetState2(s, "isConnected", TRUE),
                                  "error", "null"),
                        "retryCount", 0),
              "connectionAttempts", 0)

\* BotLogs.tsx:342-387   the connect_error handler of socket k; `limit`: the
\* message of the error includes 'Connection limit reached'
OnConnectError2(s, k, limit) ==
    LET s1 == SetState2(s, "isConnected", FALSE) IN
    IF limit
    THEN LET prev == s1.connectionAttempts
             newAttempts == prev + 1
         IN  IF s1.mounted # "yes" THEN s1
             ELSE IF newAttempts >= MAX_CONNECTION_ATTEMPTS
             THEN SetState2(SetState2(s1, "error", "Maximum connection attempts reached"),
                            "connectionAttempts", newAttempts)
             ELSE SetTimeout2(
                      SetState2(SetState2(s1, "error", "Server connection limit reached"),
                                "connectionAttempts", newAttempts),
                      "initializeSocket", k, Min(1000 * 2^prev, 10000))
    ELSE LET s2 == SetState2(s1, "error", "Connection error") IN
         IF s.sockets[k].retryCount < MAX_RETRIES
         THEN SetTimeout2(SetState2(s2, "retryCount", s2.retryCount + 1),
                          "connect", k, RETRY_DELAY)
         ELSE s2

\* BotLogs.tsx:368-372   the callback of the timer of the connect_error handler
\* of socket k: initializeSocket is the one that made socket k; the cleanup it
\* returns is dropped
RetryCallback2(s, k) ==
    [InitializeSocket(SocketClose2(s, k), s.sockets[k].connectionAttempts,
                      s.sockets[k].retryCount)
        EXCEPT !.effectSocket = s.effectSocket]

\* mutant of HandleReconnect: the counters are not reset
HandleReconnectKeepsCounters(s) ==
    IF s.socket # 0 THEN SocketConnect2(s, s.socket) ELSE s

\* BotLogs.tsx:529-536   handleReconnect
HandleReconnect(s) ==
    IF s.socket # 0
    THEN SocketConnect2(SetState2(SetState2(s, "retryCount", 0),
                                  "connectionAttempts", 0),
                        s.socket)
    ELSE s

\* an event of the component: "disconnect" of socket k with its reason,
\* "handleReconnect", or "other" (mount, connect, connect_error, timer, unmount)
Event2(kind, k, reason) == [kind |-> kind, socket |-> k, reason |-> reason]

SetInitState(s) ==
    /\ UNCHANGED <<queueVars, pollVars, botVars, mlVars>>
    /\ connectionAttempts2' = s.connectionAttempts
    /\ retryCount' = s.retryCount
    /\ isConnected2' = s.isConnected
    /\ error2' = s.error
    /\ socket' = s.socket
    /\ sockets2' = s.sockets
    /\ timers2' = s.timers
    /\ nextSocket2' = s.nextSocket
    /\ nextTimer2' = s.nextTimer
    /\ effectSocket' = s.effectSocket
    /\ mounted2' = s.mounted

\* a handler, then the render it causes
Handled(s) ==
    LET s1 == Rerender(InitState, s) IN InitBounded(s1) /\ SetInitState(s1)

\* BotLogs.tsx:244-258   the component before its mount effect has run
InitInit ==
    /\ connectionAttempts2 = 0
    /\ retryCount = 0
    /\ isConnected2 = FALSE
    /\ error2 = "null"
    /\ socket = 0
    /\ sockets2 = [k \in Sockets2 |-> NoSocket]
    /\ timers2 = {}
    /\ nextSocket2 = 1
    /\ nextTimer2 = 1
    /\ effectSocket = 0
    /\ mounted2 = "no"
    /\ lastEvent2 = Event2("other", 0, "")

\* the mount effect
InitMount ==
    /\ mounted2 = "no"
    /\ SetInitState(RunEffect([InitState EXCEPT !.mounted = "yes"]))
    /\ lastEvent2' = Event2("other", 0, "")

\* the socket connects
InitConnect(k) ==
    /\ sockets2[k].status = "connecting"
    /\ Handled(OnConnect2([InitState EXCEPT !.sockets[k].status = "connected"]))
    /\ lastEvent2' = Event2("other", 0, "")

\* the connection attempt of the socket fails
InitConnectError(k) ==
    /\ sockets2[k].status = "connecting"
    /\ \E limit \in BOOLEAN :
          Handled(OnConnectError2([InitState EXCEPT !.sockets[k].status = "idle"],
                                  k, limit))
    /\ lastEvent2' = Event2("other", 0, "")

\* the connection of the socket is lost
InitDisconnect(k) ==
    /\ sockets2[k].status = "connected"
    /\ \E reason \in DisconnectReasons :
          /\ Handled(OnDisconnect2([InitState EXCEPT !.sockets[k].status = "idle"],
                                   k, reason))
          /\ lastEvent2' = Event2("disconnect", k, reason)

\* a pending timer fires
InitTimerFires(t) ==
    /\ t \in timers2
    /\ LET s1 == [InitState EXCEPT !.timers = @ \ {t}]
       IN  Handled(IF t.kind = "initializeSocket"
                   THEN RetryCallback2(s1, t.socket)
                   ELSE SocketConnect2(s1, t.socket))
    /\ lastEvent2' = Event2("other", 0, "")

\* the user clicks Retry Connection, which is shown with the error
InitHandleReconnect ==
    /\ mounted2 = "yes"
    /\ error2 # "null"
    /\ Handled(HandleReconnect(InitState))
    /\ lastEvent2' = Event2("handleReconnect", 0, "")

\* the component is unmounted: the cleanup of the effect
InitUnmount ==
    /\ mounted2 = "yes"
    /\ SetInitState([(IF effectSocket # 0
                      THEN SocketClose2(InitState, effectSocket)
                      ELSE InitState) EXCEPT !.mounted = "gone"])
    /\ lastEvent2' = Event2("other", 0, "")

InitNext ==
    \/ InitMount
    \/ \E k \in Sockets2 : InitConnect(k)
    \/ \E k \in Sockets2 : InitConnectError(k)
    \/ \E k \in Sockets2 : InitDisconnect(k)
    \/ \E t \in timers2 : InitTimerFires(t)
    \/ InitHandleReconnect
    \/ InitUnmount

-----------------------------------------------------------------------------
(***************************************************************************)
(* MLInsightsDashboard: the socket effect and the re-subscribe effect      *)
(* (part_004:241-300)                                                      *)
(*                                                                         *)
(* The socket is made with WS_CONFIG (reconnection: true): it reconnects   *)
(* by itself after a transport-level disconnect.  A message emitted on a   *)
(* socket that is not connected is kept by the library and sent when the   *)
(* socket connects.                                                        *)
(***************************************************************************)

\* part_004:117   the pairs of the selector, two of them
Pairs == {"EUR_USD", "GBP_USD"}

\* number of io() calls a behaviour makes
MaxMlSockets == 4

\* number of successful connects counted per socket
MaxMlConnects == 2

MlSockets == 1..MaxMlSockets

NoMessages == [p \in Pairs |-> 0]

MlState ==
    [selectedPair |-> selectedPair, socketRef |-> mlSocketRef, sockets |-> mlSockets,
     sendBuffer |-> mlSendBuffer, sent |-> mlSent, nextSocket |-> nextMlSocket,
     mounted |-> mlMounted, view |-> mlView]

\* socket.emit('subscribe_ml_dashboard', { pair }): sent if the socket is
\* connected, kept in its send buffer otherwise
EmitSubscribe(s, k, pair) ==
    IF s.sockets[k].status = "connected"
    THEN [s EXCEPT !.sent[k][pair] = @ + 1]
    ELSE [s EXCEPT !.sendBuffer[k][pair] = @ + 1]

\* socketRef.current.disconnect()
MlSocketDisconnect(s, k) ==
    [s EXCEPT !.sockets[k].status = "closed", !.sent[k] = NoMessages]

\* part_004:246-258   the body of the socket effect in a render with `pair`
\* selected; `offline`: no socket was connected when the pair was chosen
SocketEffect(s, pair, offline) ==
    [s EXCEPT !.sockets[s.nextSocket] =
                  [status |-> "connecting", pair |-> pair, connects |-> 0,
                   chosenOffline |-> offline],
              !.socketRef = s.nextSocket,
              !.nextSocket = @ + 1]

\* part_004:280-288   the cleanup of the socket effect (the unsubscribe it
\* emits is followed by disconnect on the same socket)
SocketEffectCleanup(s) ==
    IF s.socketRef # 0 THEN MlSocketDisconnect(s, s.socketRef) ELSE s

\* mutant of ResubscribeEffect: the test of socketRef.current.connected is missing
ResubscribeEffectUnguarded(s, pair) ==
    IF s.socketRef # 0 THEN EmitSubscribe(s, s.socketRef, pair) ELSE s

\* part_004:296-300   the re-subscribe effect in a render with `pair` selected
ResubscribeEffect(s, pair) ==
    IF s.socketRef # 0 /\ s.sockets[s.socketRef].status = "connected"
    THEN EmitSubscribe(s, s.socketRef, pair)
    ELSE s

\* part_004:256-258   the connect handler of socket k
MlOnConnect(s, k) == EmitSubscribe(s, k, s.sockets[k].pair)

\* the library when socket k connects: the kept messages are sent, then the
\* connect handlers run
MlSocketConnected(s, k) ==
    MlOnConnect([s EXCEPT !.sockets[k].status = "connected",
                          !.sockets[k].connects = @ + 1,
                          !.sent[k] = s.sendBuffer[k],
                          !.sendBuffer[k] = NoMessages],
                k)

\* mutant of OnDashboardUpdate: the pair of the payload is not compared
OnDashboardUpdateUnfiltered(s, k, pair) ==
    IF pair = "" \/ s.mounted # "yes" THEN s ELSE [s EXCEPT !.view = pair]

\* part_004:260-278   the ml_dashboard_update handler of socket k for a payload
\* of `pair` ("" for a payload without pair): the state setters of lines
\* 263-277 put the data of the payload into the view state
OnDashboardUpdate(s, k, pair) ==
    IF pair # s.sockets[k].pair \/ s.mounted # "yes" THEN s ELSE [s EXCEPT !.view = pair]

\* an event of the component: mount, selectPair, connect, connect_error,
\* disconnect, update or unmount
MlEvent(kind, k, pair) == [kind |-> kind, socket |-> k, pair |-> pair]

SetMlState(s) ==
    /\ UNCHANGED <<queueVars, pollVars, botVars, initVars>>
    /\ selectedPair' = s.selectedPair
    /\ mlSocketRef' = s.socketRef
    /\ mlSockets' = s.sockets
    /\ mlSendBuffer' = s.sendBuffer
    /\ mlSent' = s.sent
    /\ nextMlSocket' = s.nextSocket
    /\ mlMounted' = s.mounted
    /\ mlView' = s.view

NoMlSocket == [status |-> "none", pair |-> "", connects |-> 0, chosenOffline |-> FALSE]

\* part_004:113-115   the component before its mount effects have run
MlInit ==
    /\ selectedPair = "EUR_USD"
    /\ mlSocketRef = 0
    /\ mlSockets = [k \in MlSockets |-> NoMlSocket]
    /\ mlSendBuffer = [k \in MlSockets |-> NoMessages]
    /\ mlSent = [k \in MlSockets |-> NoMessages]
    /\ nextMlSocket = 1
    /\ mlMounted = "no"
    /\ mlView = "none"
    /\ mlEvent = MlEvent("none", 0, "")

\* the effects of the first render, in the order of the source
MlMount ==
    /\ mlMounted = "no"
    /\ SetMlState(ResubscribeEffect(
           SocketEffect([MlState EXCEPT !.mounted = "yes"], selectedPair, FALSE),
           selectedPair))
    /\ mlEvent' = MlEvent("mount", 0, "")

\* the user selects another pair: the render runs the cleanup of the socket
\* effect, then the socket effect and the re-subscribe effect
MlSelectPair(pair) ==
    /\ mlMounted = "yes"
    /\ pair # selectedPair
    /\ nextMlSocket <= MaxMlSockets
    /\ LET offline == mlSocketRef = 0 \/ mlSockets[mlSocketRef].status # "connected"
           s1 == ResubscribeEffect(
                     SocketEffect(
                         SocketEffectCleanup([MlState EXCEPT !.selectedPair = pair]),
                         pair, offline),
                     pair)
       IN  SetMlState(s1)
    /\ mlEvent' = MlEvent("selectPair", 0, pair)

\* the socket connects
MlConnect(k) ==
    /\ mlSockets[k].status = "connecting"
    /\ mlSockets[k].connects < MaxMlConnects
    /\ SetMlState(MlSocketConnected(MlState, k))
    /\ mlEvent' = MlEvent("connect", k, "")

\* a connection attempt of the socket fails; the library goes on retrying, or
\* has used up its reconnectionAttempts and stops
MlConnectError(k) ==
    /\ mlSockets[k].status = "connecting"
    /\ \E after \in {"connecting", "idle"} :
          SetMlState([MlState EXCEPT !.sockets[k].status = after])
    /\ mlEvent' = MlEvent("connect_error", k, "")

\* the connection of the socket is lost; the library reconnects by itself
\* unless the server closed the connection
MlDisconnect(k) ==
    /\ mlSockets[k].status = "connected"
    /\ \E reason \in DisconnectReasons :
          SetMlState([MlState EXCEPT
                         !.sockets[k].status = IF reason = "io server disconnect"
                                               THEN "idle" ELSE "connecting",
                         !.sent[k] = NoMessages])
    /\ mlEvent' = MlEvent("disconnect", k, "")

\* the component is unmounted
MlUnmount ==
    /\ mlMounted = "yes"
    /\ SetMlState([SocketEffectCleanup(MlState) EXCEPT !.mounted = "gone"])
    /\ mlEvent' = MlEvent("unmount", 0, "")

\* the server sends ml_dashboard_update to a connected socket, for any pair or
\* without one; a socket that is not connected delivers no events
MlDashboardUpdate(k) ==
    /\ mlSockets[k].status = "connected"
    /\ \E pair \in Pairs \cup {""} :
          /\ SetMlState(OnDashboardUpdate(MlState, k, pair))
          /\ mlEvent' = MlEvent("update", k, pair)

MlNext ==
    \/ MlMount
    \/ \E pair \in Pairs : MlSelectPair(pair)
    \/ \E k \in MlSockets : MlConnect(k)
    \/ \E k \in MlSockets : MlConnectError(k)
    \/ \E k \in MlSockets : MlDisconnect(k)
    \/ \E k \in MlSockets : MlDashboardUpdate(k)
    \/ MlUnmount

-----------------------------------------------------------------------------
(***************************************************************************)
(* Specifications                                                          *)
(***************************************************************************)

Init == QueueInit /\ PollInit /\ BotInit /\ InitInit /\ MlInit

AddRequest == AddRequestUpTo(MaxRequests)

QueueNext ==
    \/ AddRequest
    \/ \E r \in Requests : TaskSettles(r)
    \/ \E r \in Requests : TimeoutFires(r)
    \/ RecheckFires
    \/ ClearQueue

SpecQueue == Init /\ [][QueueNext]_vars

\* The specification of the liveness claims: the same operations with fewer
\* submissions, and pending timers eventually fire (the event loop keeps
\* running).  Nothing is assumed of the tasks: a task may never settle.
LiveRequests == 1..MaxLiveRequests

AddRequestLive == AddRequestUpTo(MaxLiveRequests)

QueueLiveNext ==
    \/ AddRequestLive
    \/ \E r \in LiveRequests : TaskSettles(r)
    \/ \E r \in LiveRequests : TimeoutFires(r)
    \/ RecheckFires
    \/ ClearQueue

SpecQueueFair ==
    /\ Init
    /\ [][QueueLiveNext]_vars
    /\ WF_vars(\E r \in LiveRequests : TimeoutFires(r))
    /\ WF_vars(RecheckFires)

SpecPolling == Init /\ [][PollNext]_vars

SpecBotLogs == Init /\ [][BotNext]_vars

SpecInitializeSocket == Init /\ [][InitNext]_vars

SpecMLDashboard == Init /\ [][MlNext]_vars

-----------------------------------------------------------------------------
(***************************************************************************)
(* Properties of the RequestQueue                                          *)
(***************************************************************************)

Settled == {"resolved", "taskError", "timeout", "cleared"}

InQueue(r) == \E i \in 1..Len(queue) : queue[i] = r

\* C1: in every reachable state activeRequests is in 0..maxConcurrentRequests
\* and the waiting list holds between 0 and maxQueueSize entries.
C1_CountersInRange ==
    /\ activeRequests >= 0
    /\ activeRequests <= maxConcurrentRequests
    /\ Len(queue) >= 0
    /\ Len(queue) <= maxQueueSize

\* C1 witness: both limits are reached at once, after a slot was freed and taken again
C1_Witness ==
    /\ activeRequests = maxConcurrentRequests
    /\ Len(queue) = maxQueueSize
    /\ \E r \in Requests : promise[r] \in {"resolved", "taskError", "timeout"}

\* the tasks the queue has invoked and that have not settled yet
RunningTasks == {r \in Requests : task[r] = "running"}

\* C2: at every moment the number of tasks the queue has invoked and that have
\* not yet settled is at most maxConcurrentRequests, whatever the tasks' durations.
C2_RunningTasksBounded == Cardinality(RunningTasks) <= maxConcurrentRequests

\* C3: an addRequest made while the waiting list holds maxQueueSize entries
\* rejects its promise at once with the queue-full error and leaves the waiting
\* list and activeRequests unchanged; the task of a request rejected this way is
\* never invoked and no timer is ever set up for it.
C3_FullRejects ==
    /\ [][(submitted' = submitted + 1 /\ Len(queue) >= maxQueueSize)
            => /\ promise'[submitted + 1] = "full"
               /\ queue' = queue
               /\ activeRequests' = activeRequests
               /\ task' = task]_vars
    /\ [](\A r \in Requests :
            promise[r] = "full"
              => task[r] = "notInvoked" /\ timeoutTimer[r] = "none" /\ ~InQueue(r))

\* C3 witness: a submission was rejected queue-full, and every request that was
\* ahead of it has been dispatched since
C3_Witness ==
    \E r \in Requests :
        /\ promise[r] = "full"
        /\ queue = <<>>
        /\ \A r2 \in 1..(r - 1) : timeoutTimer[r2] # "none"

\* C4: every request admitted to the waiting list eventually has its promise
\* settled (task value, task error, timeout or queue cleared), given that
\* pending timers eventually fire, even if tasks never settle.
C4_AdmittedEventuallySettles ==
    \A r \in LiveRequests : (promise[r] = "pending") ~> (promise[r] \in Settled)

\* C4 witness: a request that waited behind a task that never settled has been
\* dispatched and rejected by its own timeout, its task still running
C4_Witness ==
    \E r1, r2 \in Requests :
        /\ r1 < r2
        /\ promise[r1] = "timeout" /\ task[r1] = "running"
        /\ promise[r2] = "timeout" /\ task[r2] = "running"
        /\ r2 > maxConcurrentRequests

\* the entries processQueue has taken off the waiting list
Dispatched == {r \in Requests : timeoutTimer[r] # "none"}

\* the entries counted in activeRequests: dispatched, finally not yet run
InFlight == {r \in Dispatched : promise[r] = "pending"}

\* the outcomes of a dispatched entry
RaceOutcomes == {"resolved", "taskError", "timeout"}

\* the steps of C11: a settled promise stays as it is, a dispatched entry
\* stays dispatched, and a timeout that finds its task running rejects the
\* promise with the timeout error
OneDecrementStep ==
    \A r \in Requests :
        /\ promise[r] \in Settled => promise'[r] = promise[r]
        /\ timeoutTimer[r] # "none" => timeoutTimer'[r] # "none"
        /\ (/\ timeoutTimer[r] = "pending"
            /\ promise[r] = "pending"
            /\ task[r] = "running"
            /\ timeoutTimer'[r] = "fired") => promise'[r] = "timeout"

\* C11: a dispatched entry whose task has not settled when its timeout fires
\* has its promise rejected with the timeout error; a settled promise never
\* changes again, so the task's later settlement does not change the outcome;
\* and each dispatched entry decrements activeRequests exactly once, however
\* it ends: activeRequests always counts exactly the dispatched entries whose
\* promise is still pending, an entry is dispatched once and its promise
\* settles once, so the counter goes up once and down once per entry.
C11_OneDecrementPerEntry ==
    /\ [](activeRequests = Cardinality(InFlight))
    /\ [][OneDecrementStep]_vars

\* C11 witness: an entry was rejected by its timeout, its task settled later,
\* and the counter is back at 0 with nothing waiting
C11_Witness ==
    \E r \in Requests :
        /\ promise[r] = "timeout" /\ task[r] = "settled"
        /\ activeRequests = 0 /\ queue = <<>>

\* the requests addRequest has put on the waiting list and clearQueue has not
\* rejected
Admitted == {r \in Requests : promise[r] \notin {"unsubmitted", "full", "cleared"}}

\* C12: admitted requests are dispatched in submission order: if B has been
\* dispatched, every request admitted before B has been dispatched too.
C12_DispatchInSubmissionOrder ==
    \A a, b \in Admitted : (a < b /\ b \in Dispatched) => a \in Dispatched

\* C12 witness: two requests waited together (the list was full when a later
\* one was submitted) and both have been dispatched
C12_Witness ==
    \E a, b, c \in Requests :
        /\ a < b /\ b < c
        /\ a > maxConcurrentRequests
        /\ promise[c] = "full"
        /\ a \in Dispatched /\ b \in Dispatched

\* C13: clearQueue rejects the promise of every waiting request with the
\* queue-cleared error and leaves the waiting list empty; activeRequests, the
\* tasks, the timers and all other promises are unchanged; the task of a
\* cleared request is never invoked; and every in-flight request still
\* settles with its own task result, task error or timeout.
C13_ClearQueueRejectsWaiting ==
    /\ [][(\E r \in Requests : promise[r] # "cleared" /\ promise'[r] = "cleared")
            => /\ queue' = <<>>
               /\ \A r \in Requests :
                     promise'[r] = IF InQueue(r) THEN "cleared" ELSE promise[r]
               /\ activeRequests' = activeRequests
               /\ task' = task
               /\ timeoutTimer' = timeoutTimer
         ]_vars
    /\ [](\A r \in Requests :
             promise[r] = "cleared" => (task[r] = "notInvoked" /\ r \notin Dispatched))
    /\ \A r \in LiveRequests :
          (r \in InFlight) ~> (promise[r] \in RaceOutcomes)

\* C13 witness: a waiting request has been cleared while every slot is taken
\* by a request whose task is still running
C13_Witness ==
    \E r \in Requests :
        /\ promise[r] = "cleared"
        /\ queue = <<>>
        /\ Cardinality({q \in InFlight : task[q] = "running"}) = maxConcurrentRequests

\* C20: the number of waiting requests plus the number of in-flight requests
\* does not exceed maxQueueSize.
C20_TotalWithinQueueSize == Len(queue) + activeRequests <= maxQueueSize

\* C20, as the code has it: the waiting list is limited by maxQueueSize and the
\* in-flight requests by maxConcurrentRequests, each on its own, so the total
\* does not exceed maxQueueSize + maxConcurrentRequests.
C20_TotalWithinBothLimits ==
    Len(queue) + activeRequests <= maxQueueSize + maxConcurrentRequests

\* C20 witness: the waiting list is full while every slot is taken
C20_Witness ==
    /\ Len(queue) = maxQueueSize
    /\ activeRequests = maxConcurrentRequests
    /\ Len(queue) + activeRequests > maxQueueSize

\* a burst: submissions only, on the idle queue of the initial state; nothing
\* has completed, timed out or been cleared
InBurst ==
    /\ recheckTimers = 0
    /\ \A r \in Requests : /\ promise[r] \in {"unsubmitted", "pending", "full"}
                            /\ task[r] \in {"notInvoked", "running"}

\* every task so far has fulfilled in time and nothing was cleared, and
\* nothing is running or scheduled any more
AllCompletedWell ==
    /\ recheckTimers = 0
    /\ \A r \in Requests : /\ promise[r] \notin {"taskError", "timeout", "cleared"}
                            /\ task[r] # "running"

\* C21: in a burst of submissions on the idle queue the first
\* maxConcurrentRequests tasks are invoked at their submission, the next
\* maxQueueSize requests wait in submission order and every further one is
\* rejected queue-full; and when the tasks have all fulfilled and no re-check
\* is left, nothing waits any more and every admitted promise has resolved
\* with its task's value.
C21_BurstScenario ==
    /\ InBurst =>
          \A r \in 1..submitted :
              IF r <= maxConcurrentRequests
              THEN promise[r] = "pending" /\ task[r] = "running"
              ELSE IF r <= maxConcurrentRequests + maxQueueSize
              THEN /\ promise[r] = "pending" /\ task[r] = "notInvoked"
                   /\ Len(queue) >= r - maxConcurrentRequests
                   /\ queue[r - maxConcurrentRequests] = r
              ELSE promise[r] = "full" /\ task[r] = "notInvoked"
    /\ AllCompletedWell =>
          /\ queue = <<>>
          /\ \A r \in 1..submitted : promise[r] \in {"resolved", "full"}

\* C21 witness: maxConcurrentRequests + maxQueueSize + 1 submissions were
\* made in a burst, the last was rejected, and the admitted ones have resolved
C21_Witness ==
    /\ submitted = maxConcurrentRequests + maxQueueSize + 1
    /\ AllCompletedWell
    /\ \A r \in 1..(submitted - 1) : promise[r] = "resolved"
    /\ promise[submitted] = "full"

\* the entries the step dispatches
NewlyDispatched == Dispatched' \ Dispatched

\* the step runs the dispatch check with a free slot and an entry to take:
\* an admitted submission, or a re-check that finds an entry waiting
CheckCanDispatch ==
    /\ activeRequests < maxConcurrentRequests
    /\ \/ submitted' = submitted + 1 /\ ~QueueIsFull(queue)
       \/ /\ submitted' = submitted /\ queue # <<>>
          /\ recheckTimers' < recheckTimers

\* C27, as stated: right after a dispatch check that started a task it is
\* never the case that a slot is free while a request still waits.
C27_CheckFillsEverySlot ==
    [][(NewlyDispatched # {} /\ NewlyDispatched \subseteq InFlight')
          => (activeRequests' = maxConcurrentRequests \/ queue' = <<>>)
      ]_vars

\* C27, amended: a run of the dispatch check dispatches at most one entry,
\* the head of the waiting list, and only into a free slot; it dispatches
\* exactly one when a slot is free and an entry is there to take.
C27_CheckDispatchesOneHead ==
    [][/\ Cardinality(NewlyDispatched) <= 1
       /\ \A r \in NewlyDispatched :
             /\ activeRequests < maxConcurrentRequests
             /\ r = IF queue = <<>> THEN submitted' ELSE Head(queue)
       /\ CheckCanDispatch => Cardinality(NewlyDispatched) = 1
      ]_vars

\* C27 witness: a dispatch check has started the head entry and left a slot
\* free while another request waits
C27_Witness ==
    /\ activeRequests = 1
    /\ Len(queue) = 1
    /\ recheckTimers = 1
    /\ Cardinality(InFlight) = 1
    /\ \A r \in InFlight : r > maxConcurrentRequests /\ r < queue[1]
    /\ \A r \in 1..maxConcurrentRequests : promise[r] = "resolved"

\* a request waits although a slot is free
WaitingBesideFreeSlot == queue # <<>> /\ activeRequests < maxConcurrentRequests

\* C28: whenever a request waits although a slot is free, at least as many
\* delayed re-checks are pending as slots are free, and the situation ends:
\* the free slots are filled or nothing waits any more.
C28_NoStall ==
    /\ [](WaitingBesideFreeSlot
            => recheckTimers >= maxConcurrentRequests - activeRequests)
    /\ (WaitingBesideFreeSlot ~> ~WaitingBesideFreeSlot)

\* C28 witness: a request waits, every slot is free, and one re-check is
\* pending per free slot
C28_Witness ==
    /\ queue # <<>>
    /\ activeRequests = 0
    /\ recheckTimers = maxConcurrentRequests
    /\ \E r \in Requests : promise[r] = "timeout"

-----------------------------------------------------------------------------
(***************************************************************************)
(* Properties of StaggeredPolling                                          *)
(***************************************************************************)

TimersOf(c) == {t \in liveTimers : t.component = c}

\* C5: after any sequence of registerComponent, startPolling, stopPolling and
\* stopAllPolling calls every component has at most one live repeating timer,
\* the one activeIntervals holds; a startPolling made while the component is
\* already polled leaves exactly one.
C5_OneTimerPerComponent ==
    \A c \in Components :
        /\ Cardinality(TimersOf(c)) <= 1
        /\ activeIntervals[c] # 0 =>
              \E t \in liveTimers : t.handle = activeIntervals[c] /\ TimersOf(c) = {t}
        /\ (pollOp.op = "startPolling" /\ pollOp.component = c /\ pollOp.hadTimer)
              => Cardinality(TimersOf(c)) = 1

\* C5 witness: startPolling was called for a component that was being polled
C5_Witness ==
    /\ pollOp.op = "startPolling"
    /\ pollOp.hadTimer
    /\ Cardinality(TimersOf(pollOp.component)) = 1

\* the step is a call of startPolling for component c
IsStartPolling(c) == pollOp'.op = "startPolling" /\ pollOp'.component = c

\* C14: startPolling for a registered component calls the callback exactly
\* once in the call itself, and sets exactly one repeating timer, whose fixed
\* period p satisfies base <= p <= 1.3 * base for the registered base
\* interval; every tick of a live timer calls the callback of its component
\* exactly once and leaves the timers and their periods as they are.
C14_ImmediateCallThenStaggeredPeriod ==
    [][/\ \A c \in Components :
             (IsStartPolling(c) /\ componentConfigs[c] # NoConfig)
                => /\ calls'[c] = calls[c] + 1
                   /\ \A d \in Components \ {c} : calls'[d] = calls[d]
                   /\ \E t \in liveTimers' :
                         /\ liveTimers' \ liveTimers = {t}
                         /\ t.component = c
                         /\ activeIntervals'[c] = t.handle
                         /\ 10 * componentConfigs[c].baseInterval <= 10 * t.period
                         /\ 10 * t.period <= 13 * componentConfigs[c].baseInterval
       /\ pollOp'.op = "tick"
             => /\ calls'[pollOp'.component] = calls[pollOp'.component] + 1
                /\ \A d \in Components \ {pollOp'.component} : calls'[d] = calls[d]
                /\ liveTimers' = liveTimers
      ]_vars

\* C14 witness: a component registered with base 1000 was started with a
\* period above its base, and its timer has ticked
C14_Witness ==
    \E t \in liveTimers :
        /\ pollOp.op = "tick" /\ pollOp.component = t.component
        /\ componentConfigs[t.component].baseInterval = 1000
        /\ t.period = 1299
        /\ calls[t.component] = 2

\* C15: startPolling for a component that has no registration calls the
\* callback not even once, creates no timer and leaves the timers, the map of
\* active timers and the registrations as they are.
C15_StartWithoutRegistrationIsNoOp ==
    [][\A c \in Components :
          (IsStartPolling(c) /\ componentConfigs[c] = NoConfig)
             => /\ calls' = calls
                /\ liveTimers' = liveTimers
                /\ activeIntervals' = activeIntervals
                /\ nextHandle' = nextHandle
                /\ componentConfigs' = componentConfigs
      ]_vars

\* C15 witness: startPolling was called for a component without registration
\* while the other component is being polled
C15_Witness ==
    /\ pollOp.op = "startPolling"
    /\ componentConfigs[pollOp.component] = NoConfig
    /\ calls[pollOp.component] = 0
    /\ \E t \in liveTimers : t.component # pollOp.component

\* C22: stopPolling(name) leaves name without a timer, so that no tick calls
\* its callback until a later startPolling; the timers of other components,
\* the registrations and the call counts stay as they are, and when name had no
\* active timer (never started, stopped before, or never registered) nothing
\* changes at all.
C22_StopPollingCancelsAndIsIdempotent ==
    [][/\ \A c \in Components :
             (pollOp'.op = "stopPolling" /\ pollOp'.component = c)
                => /\ TimersOf(c)' = {}
                   /\ activeIntervals'[c] = 0
                   /\ \A d \in Components \ {c} :
                         /\ TimersOf(d)' = TimersOf(d)
                         /\ activeIntervals'[d] = activeIntervals[d]
                   /\ componentConfigs' = componentConfigs
                   /\ calls' = calls
                   /\ activeIntervals[c] = 0
                         => /\ liveTimers' = liveTimers
                            /\ activeIntervals' = activeIntervals
       /\ pollOp'.op = "tick" => activeIntervals[pollOp'.component] # 0
      ]_vars

\* C22 witness: stopPolling was called for a registered component without an
\* active timer, after its callback had been called, while the other component
\* is being polled
C22_Witness ==
    /\ pollOp.op = "stopPolling"
    /\ ~pollOp.hadTimer
    /\ componentConfigs[pollOp.component] # NoConfig
    /\ calls[pollOp.component] > 0
    /\ \E t \in liveTimers : t.component # pollOp.component

\* C23: stopAllPolling leaves no timer running and no component with an
\* active timer, however many components were being polled, and touches
\* neither the registrations nor the call counts; while no component has an
\* active timer no callback is called by a tick, so that the next call of a
\* callback is the one a later startPolling makes.
C23_StopAllPollingStopsEveryTimer ==
    /\ [][pollOp'.op = "stopAllPolling"
             => /\ liveTimers' = {}
                /\ \A c \in Components : activeIntervals'[c] = 0
                /\ componentConfigs' = componentConfigs
                /\ calls' = calls
         ]_vars
    /\ [][((\A c \in Components : activeIntervals[c] = 0) /\ calls' # calls)
             => pollOp'.op = "startPolling"
         ]_vars

\* C23 witness: stopAllPolling was called while both components were polled
C23_Witness ==
    /\ pollOp.op = "stopAllPolling"
    /\ liveTimers = {}
    /\ \A c \in Components : calls[c] > 0 /\ componentConfigs[c] # NoConfig

\* C24: registerComponent(name, base) stores for name a registration with
\* that name, a base interval callers pass and an offset in [0, 0.3 * base] of
\* the new base, whatever was registered for name before, and leaves the
\* registrations of other names alone; no other operation of the scheduler
\* (startPolling, stopPolling, stopAllPolling, a tick) changes a registration,
\* and getPollingStatus reports the stored values.
C24_RegistrationFixedAtRegister ==
    /\ [][\A c \in Components :
             IF pollOp'.op = "registerComponent" /\ pollOp'.component = c
             THEN /\ componentConfigs'[c].component = c
                  /\ componentConfigs'[c].baseInterval \in BaseIntervals
                  /\ 0 <= componentConfigs'[c].staggerOffset
                  /\ 10 * componentConfigs'[c].staggerOffset
                        <= 3 * componentConfigs'[c].baseInterval
                  /\ liveTimers' = liveTimers /\ activeIntervals' = activeIntervals
                  /\ calls' = calls
             ELSE componentConfigs'[c] = componentConfigs[c]
         ]_vars
    /\ [](\A c \in Components :
             componentConfigs[c] # NoConfig
                => [component |-> c,
                    interval |-> componentConfigs[c].baseInterval,
                    staggered |-> componentConfigs[c].baseInterval
                                    + componentConfigs[c].staggerOffset]
                      \in GetPollingStatus)

\* C24 witness: a component registered with base 15000 and the largest
\* offset was registered again with base 1000 while it was being polled
C24_Witness ==
    /\ pollOp.op = "registerComponent"
    /\ pollOp.hadTimer
    /\ componentConfigs[pollOp.component].baseInterval = 1000
    /\ \E t \in liveTimers : t.component = pollOp.component /\ t.period = 19499

\* the step is a call that stops the polling of component c
IsStop(c) ==
    \/ pollOp'.op = "stopPolling" /\ pollOp'.component = c
    \/ pollOp'.op = "stopAllPolling"

\* C25, as stated: after stopPolling(name) or stopAllPolling()
\* getPollingStatus no longer lists the component, and a startPolling without
\* a new registerComponent does nothing.
C25_StopDestroysRegistration ==
    [][\A c \in Components :
          /\ IsStop(c) => \A e \in GetPollingStatus' : e.component # c
          /\ (IsStartPolling(c) /\ calls[c] > 0 /\ activeIntervals[c] = 0
                 /\ pollOp.op # "registerComponent")
                => calls' = calls /\ liveTimers' = liveTimers
      ]_vars

\* C25, amended: a registration outlives the stopping of its polling:
\* stopPolling(name) and stopAllPolling() leave what getPollingStatus lists
\* as it is, and a startPolling of a stopped, still registered component
\* calls its callback and sets its timer again.
C25_StopKeepsRegistration ==
    [][\A c \in Components :
          /\ IsStop(c) => GetPollingStatus' = GetPollingStatus
          /\ (IsStartPolling(c) /\ calls[c] > 0 /\ activeIntervals[c] = 0)
                => /\ calls'[c] = calls[c] + 1
                   /\ activeIntervals'[c] # 0
                   /\ \E t \in liveTimers' : t.component = c
      ]_vars

\* C25 witness: a component that was polled and then stopped is still listed,
\* and was started again right after the stop
C25_Witness ==
    /\ pollOp.op = "startPolling"
    /\ ~pollOp.hadTimer
    /\ calls[pollOp.component] = 2
    /\ activeIntervals[pollOp.component] # 0
    /\ \E e \in GetPollingStatus : e.component = pollOp.component

\* C29: the timer of every polled component has the period getPollingStatus
\* reports as staggered for it, baseInterval + staggerOffset of its current
\* registration.
C29_PeriodMatchesRegistration ==
    \A t \in liveTimers :
        activeIntervals[t.component] = t.handle
           => \E e \in GetPollingStatus :
                 e.component = t.component /\ e.staggered = t.period

-----------------------------------------------------------------------------
(***************************************************************************)
(* Properties of BotLogs, the client built on connectSocket                *)
(***************************************************************************)

LiveSockets == {k \in Sockets : sockets[k] \in {"connecting", "connected"}}

\* C7: across consecutive connect errors with no successful connect in
\* between, the delay of the reconnect scheduled after the k-th failure
\* (k = 0, 1, 2, ...) is min(1000 * 2^k, 10000): d, 2d, 4d, ...
C7_DelayDoublesPerFailure ==
    \A t \in reconnectTimers : t.kind = "retry" => t.delay = BackoffDelay(t.failure)

\* C8: at every moment the client has at most one pending reconnect timer.
C8_OnePendingReconnect == Cardinality(reconnectTimers) <= 1

\* C10: at every moment at most one socket made by the client is connected or
\* connecting.
C10_SingleConnection == Cardinality(LiveSockets) <= 1

C26_PingTimerOnlyWhileConnected ==
    /\ Cardinality(pingIntervals) <= 1
    /\ \A k \in pingIntervals : mounted = "yes" /\ sockets[k] = "connected"

\* C30: once the component is unmounted no socket it made is connected or
\* connecting, no reconnect timer it set fires, and it makes no new socket.
C30_NothingAfterTeardown ==
    /\ [](mounted = "gone" => LiveSockets = {})
    /\ [][mounted = "gone"
             => reconnectTimers' = reconnectTimers /\ nextSocket' = nextSocket
         ]_vars

-----------------------------------------------------------------------------
(***************************************************************************)
(* Properties of BotLogs, the client built on initializeSocket             *)
(***************************************************************************)

Connecting2(ss) == {k \in Sockets2 : ss[k].status = "connecting"}

GivenUp == connectionAttempts2 >= MAX_CONNECTION_ATTEMPTS

\* C6: once the attempt counter has reached MAX_CONNECTION_ATTEMPTS the client
\* has given up: as long as the counter is not reset (by a manual retry) no
\* reconnect is scheduled and no connection attempt is made.
C6_GiveUpIsTerminal ==
    [][(GivenUp /\ GivenUp')
          => /\ Connecting2(sockets2') \subseteq Connecting2(sockets2)
             /\ timers2' \subseteq timers2]_vars

\* BotLogs.tsx:394   the delays Math.min(1000 * Math.pow(2, retryCount), 5000)
\* can take
DisconnectDelays == {Min(1000 * 2^n, 5000) : n \in 0..MAX_RETRIES}

\* C17: when a socket of the mounted client is disconnected, the connected flag
\* becomes false; if the server closed the connection the client is
\* reconnecting at once and no backoff timer is set; if the transport failed
\* (transport close or transport error) a reconnect timer with an exponential
\* backoff delay is set.
C17_DisconnectReconnectPolicy ==
    [][\A k \in Sockets2 : \A reason \in DisconnectReasons :
          (mounted2 = "yes" /\ lastEvent2' = Event2("disconnect", k, reason))
             => /\ isConnected2' = FALSE
                /\ reason = "io server disconnect"
                      => /\ Connecting2(sockets2') # {}
                         /\ timers2' = timers2
                /\ reason \in {"transport close", "transport error"}
                      => \E t \in timers2' \ timers2 : t.delay \in DisconnectDelays
      ]_vars

\* C18: a manual reconnect in the give-up state resets the attempt counter to
\* 0 and starts a connection attempt; the socket of the attempt counts its
\* failures from 0 again, so the next connection-limit error of that socket
\* schedules an automatic retry with the first backoff delay.
C18_ManualReconnectRestarts ==
    [][(mounted2 = "yes" /\ GivenUp /\ lastEvent2'.kind = "handleReconnect")
          => /\ connectionAttempts2' = 0
             /\ \E k \in Connecting2(sockets2') \ Connecting2(sockets2) :
                   /\ sockets2'[k].connectionAttempts = 0
                   /\ \E t \in OnConnectError2(InitState', k, TRUE).timers \ timers2' :
                         /\ t.kind = "initializeSocket"
                         /\ t.delay = 1000
      ]_vars

\* C18 witness: after the maximum of attempts was reached the user has clicked
\* Retry Connection; the counter is 0 and a socket is connecting
C18_Witness ==
    /\ mounted2 = "yes"
    /\ lastEvent2.kind = "handleReconnect"
    /\ error2 = "Maximum connection attempts reached"
    /\ connectionAttempts2 = 0
    /\ \E k \in Connecting2(sockets2) : sockets2[k].connectionAttempts = 0

-----------------------------------------------------------------------------
(***************************************************************************)
(* Properties of the MLInsightsDashboard socket                            *)
(***************************************************************************)

\* C9: whenever the socket of the client is connected, on first connect or
\* after a disconnect and reconnect, the subscribe message for the selected
\* pair has been sent exactly once on that connection and none for another
\* pair, also when the pair was chosen while the client was not connected.
C9_SubscribedOncePerConnect ==
    \A k \in MlSockets :
        (mlSockets[k].status = "connected" /\ k = mlSocketRef)
            => /\ mlSent[k][selectedPair] = 1
               /\ \A p \in Pairs \ {selectedPair} : mlSent[k][p] = 0

\* C9 witness: the socket of a pair chosen while the client was not connected
\* has connected, lost its connection and connected again
C9_Witness ==
    \E k \in MlSockets :
        /\ k = mlSocketRef
        /\ mlSockets[k].status = "connected"
        /\ mlSockets[k].connects = 2
        /\ mlSockets[k].chosenOffline
        /\ mlSockets[k].pair = "GBP_USD"
        /\ mlSent[k]["GBP_USD"] = 1

\* C19: a dashboard-update event whose pair differs from the selected pair
\* never changes the view state, whatever pair changes, reconnects and events
\* came before, an event for the previously selected pair after a change of
\* pair included; the view state changes only to data of the selected pair.
C19_OtherPairUpdatesDiscarded ==
    [][/\ (mlEvent'.kind = "update" /\ mlEvent'.pair # selectedPair)
             => mlView' = mlView
       /\ mlView' # mlView => mlView' = selectedPair'
      ]_vars

\* C19 witness: after a change of pair, with the data of the first pair still
\* in the view, an update for the first pair has arrived on the connected
\* socket of the second pair
C19_Witness ==
    /\ selectedPair = "GBP_USD"
    /\ mlView = "EUR_USD"
    /\ mlEvent = MlEvent("update", mlSocketRef, "EUR_USD")
    /\ mlSocketRef # 0
    /\ mlSockets[mlSocketRef].status = "connected"

====
